---- MODULE Spec2Model ----
(***************************************************************************)
(* State-management testbed: one toy domain (documents holding pages,      *)
(* workspaces referenced from documents) implemented seven times: vanilla  *)
(* Redux thunks, Redux Toolkit thunks, redux-saga, redux-observable,       *)
(* Zustand, MobX-Keystone and Effect-Atom.                                 *)
(*                                                                         *)
(* One behaviour of this module is one run of ONE variant (chosen in Init).*)
(* The store is the pair documents / workspaces.  A create-document        *)
(* workflow and a fetch-workspaces workflow are sequences of synchronous   *)
(* segments separated by setTimeout delays; a segment (a timer callback    *)
(* plus every promise continuation it triggers) is one action, because the *)
(* JavaScript event loop runs it to completion.  Time is counted in units  *)
(* of 100 ms; timers fire at their deadline, equal delays in creation      *)
(* order.  crypto.randomUUID() is modelled as a fresh id per call.         *)
(* Each invocation of an Effect-Atom runtime.fn runs as its own fiber.     *)
(*                                                                         *)
(* rootRunning tells whether the root saga / root epic is still running: an *)
(* error that no handler of a workflow swallows ends it and every watcher. *)
(*                                                                         *)
(* issuedAfterFailure records the create and fetch requests that were      *)
(* issued after some workflow had already ended in the write failure.      *)
(*                                                                         *)
(* A workflow's field early records the workspace ids that were added to    *)
(* its document while its create-document-directory delay was pending.     *)
(*                                                                         *)
(* chronicle records, by workflow index, the order in which documents were *)
(* inserted, pages were inserted and write failures were handled.          *)
(*                                                                         *)
(* Beside the variant under test the module runs the vanilla Redux variant *)
(* on the same requests at the same instants (variable reference), so that *)
(* the stores of two variants can be compared in one state.                *)
(***************************************************************************)
EXTENDS Integers, Sequences, FiniteSets, TLC

VARIABLES variant, documents, workspaces, workflows, fetches, timers,
          uuids, adds, last, reference, rootRunning, issuedAfterFailure,
          chronicle

vars == <<variant, documents, workspaces, workflows, fetches, timers,
          uuids, adds, last, reference, rootRunning, issuedAfterFailure,
          chronicle>>

(* ---------------------------- bounds ---------------------------------- *)
\* user requests (create-document, load-workspaces, add-to-workspace) per run
MaxRequests == 4

(* ------------------------ program constants --------------------------- *)
\* setTimeout(resolve, 100) of the two directory steps, in units of 100 ms
DirectoryDelay == 1
\* setTimeout(resolve, 500) of the workspace fetch, in units of 100 ms
FetchDelay == 5

Variants == {"vanilla", "thunk", "saga", "observable", "zustand", "mobx", "effect"}

(* --------------------------- helpers ---------------------------------- *)
\* Array.prototype.includes
Includes(seq, x) == \E i \in DOMAIN seq : seq[i] = x

\* number of occurrences of x in seq
Count(seq, x) == Cardinality({i \in DOMAIN seq : seq[i] = x})

\* { ...record, [key]: value } / record[key] = value
Put(coll, key, value) ==
  [k \in (DOMAIN coll) \cup {key} |-> IF k = key THEN value ELSE coll[k]]

\* crypto.randomUUID(): the n-th id generated in this run
UUID(n) == "uuid-" \o ToString(n)

IsPrefix(s, t) == Len(s) <= Len(t) /\ \A i \in DOMAIN s : s[i] = t[i]

(* --------------------------- fixtures --------------------------------- *)
FixtureDocument(id, path, title, ws) ==
  [id |-> id, path |-> path, title |-> title, pages |-> <<>>, workspaceIds |-> <<ws>>]

\* the simulated database response (identical literal in every variant)
FixtureWorkspaces ==
  << [id |-> "workspace-1", name |-> "Personal Projects",
      documents |-> <<
        FixtureDocument("doc-workspace-1-1", "C:/Users/trey/workspace-1/doc-1",
                        "Personal Website", "workspace-1"),
        FixtureDocument("doc-workspace-1-2", "C:/Users/trey/workspace-1/doc-2",
                        "Side Project Ideas", "workspace-1") >>],
     [id |-> "workspace-2", name |-> "Work Documents",
      documents |-> <<
        FixtureDocument("doc-workspace-2-1", "C:/Users/trey/workspace-2/doc-1",
                        "Q4 Planning", "workspace-2") >>],
     [id |-> "workspace-3", name |-> "Research",
      documents |-> <<
        FixtureDocument("doc-workspace-3-1", "C:/Users/trey/workspace-3/doc-1",
                        "State Management Comparison", "workspace-3"),
        FixtureDocument("doc-workspace-3-2", "C:/Users/trey/workspace-3/doc-2",
                        "React Patterns", "workspace-3") >>] >>

\* mutant: only the first workspace's documents are dispatched
FlattenFirstOnly(wss) == IF wss = <<>> THEN <<>> ELSE Head(wss).documents

RECURSIVE Flatten(_)
\* workspaces.flatMap(w => w.documents ?? []) : the documents in dispatch order
Flatten(wss) ==
  IF wss = <<>> THEN <<>> ELSE Head(wss).documents \o Flatten(Tail(wss))

FixtureDocuments == Flatten(FixtureWorkspaces)

\* const document = { id, path: `C:/Users/trey/${id}`, title: "New Document",
\*                    pages: [], workspaceIds: [] }
NewDocument(id) ==
  [id |-> id, path |-> "C:/Users/trey/" \o id, title |-> "New Document",
   pages |-> <<>>, workspaceIds |-> <<>>]

\* mutant: title and content swapped
NewPageSwapped(id) == [id |-> id, title |-> "", content |-> "New Page"]

\* const page = { id, title: "New Page", content: "" }
NewPage(id) == [id |-> id, title |-> "New Page", content |-> ""]

(* ============================ store operations ======================== *)
(* Each operator is one reducer case / store method: it maps the collection *)
(* before to the collection after.                                          *)

(* ---- vanilla Redux: documentsReducer / workspacesReducer ---- *)
\* mutant: a document whose id is already stored is added as a further record
VanillaDocumentAddedAgain(state, payload) ==
  IF payload.id \in DOMAIN state
  THEN Put(state, payload.id \o "-copy", payload)
  ELSE Put(state, payload.id, payload)

\* case DOCUMENT_ADDED: { ...state, [payload.id]: payload }
VanillaDocumentAdded(state, payload) == Put(state, payload.id, payload)

\* case DOCUMENT_PAGE_ADDED: returns state when the document is missing
VanillaDocumentPageAdded(state, documentId, page) ==
  IF documentId \notin DOMAIN state THEN state
  ELSE LET existing == state[documentId] IN
       Put(state, existing.id, [existing EXCEPT !.pages = Append(existing.pages, page)])

\* mutant: an id already present is moved to the end of workspaceIds
VanillaDocumentAddedToWorkspaceMoveToEnd(state, documentId, workspaceId) ==
  IF documentId \notin DOMAIN state THEN state
  ELSE LET existing == state[documentId] IN
       Put(state, existing.id,
           [existing EXCEPT !.workspaceIds =
              Append(SelectSeq(existing.workspaceIds, LAMBDA x : x # workspaceId),
                     workspaceId)])

\* mutant: the reducer appends only ids of the fixture workspaces
VanillaDocumentAddedToWorkspaceKnownOnly(state, documentId, workspaceId) ==
  IF \/ documentId \notin DOMAIN state
     \/ Includes(state[documentId].workspaceIds, workspaceId)
     \/ workspaceId \notin {FixtureWorkspaces[w].id : w \in DOMAIN FixtureWorkspaces}
  THEN state
  ELSE Put(state, documentId,
           [state[documentId] EXCEPT
              !.workspaceIds = Append(state[documentId].workspaceIds, workspaceId)])

\* case DOCUMENT_ADDED_TO_WORKSPACE
VanillaDocumentAddedToWorkspace(state, documentId, workspaceId) ==
  IF documentId \notin DOMAIN state \/ Includes(state[documentId].workspaceIds, workspaceId)
  THEN state
  ELSE LET existing == state[documentId] IN
       Put(state, existing.id,
           [existing EXCEPT !.workspaceIds = Append(existing.workspaceIds, workspaceId)])

\* case DOCUMENT_REMOVED: delete next[documentId]
VanillaDocumentRemoved(state, documentId) ==
  [k \in (DOMAIN state) \ {documentId} |-> state[k]]

RECURSIVE MergeWorkspaces(_, _)
\* payload.forEach(w => { next[w.id] = { id: w.id, name: w.name } })
MergeWorkspaces(state, payload) ==
  IF payload = <<>> THEN state
  ELSE MergeWorkspaces(Put(state, Head(payload).id,
                           [id |-> Head(payload).id, name |-> Head(payload).name]),
                       Tail(payload))

\* case WORKSPACES_SET: merge into a copy of the existing record
VanillaWorkspacesSet(state, payload) == MergeWorkspaces(state, payload)

(* ---- Redux Toolkit thunks: documentsSlice / workspacesSlice ---- *)
\* mutant: the record is stored under its path
ThunkAddDocumentByPath(state, payload) == Put(state, payload.path, payload)

\* addDocument: state[payload.id] = payload
ThunkAddDocument(state, payload) == Put(state, payload.id, payload)

\* addPage: state[documentId].pages.push(page)  (no existence check)
ThunkAddPage(state, documentId, page) ==
  Put(state, documentId,
      [state[documentId] EXCEPT !.pages = Append(state[documentId].pages, page)])

\* mutant: the includes() test is missing
ThunkAddDocumentToWorkspaceUnchecked(state, documentId, workspaceId) ==
  IF documentId \in DOMAIN state
  THEN Put(state, documentId,
           [state[documentId] EXCEPT
              !.workspaceIds = Append(state[documentId].workspaceIds, workspaceId)])
  ELSE state

\* addDocumentToWorkspace
ThunkAddDocumentToWorkspace(state, documentId, workspaceId) ==
  IF documentId \in DOMAIN state /\ ~Includes(state[documentId].workspaceIds, workspaceId)
  THEN Put(state, documentId,
           [state[documentId] EXCEPT
              !.workspaceIds = Append(state[documentId].workspaceIds, workspaceId)])
  ELSE state

\* extraReducers fetchWorkspaces.fulfilled
ThunkWorkspacesFulfilled(state, payload) == MergeWorkspaces(state, payload)

(* ---- redux-saga / redux-observable: sagas/documents.slice, workspaces.slice ---- *)
\* mutant: a document already stored keeps the workspace ids it has
SagaAddDocumentKeepsWorkspaceIds(state, payload) ==
  IF payload.id \in DOMAIN state
  THEN Put(state, payload.id,
           [payload EXCEPT !.workspaceIds =
              @ \o SelectSeq(state[payload.id].workspaceIds,
                             LAMBDA w : ~Includes(payload.workspaceIds, w))])
  ELSE Put(state, payload.id, payload)

\* addDocument: state[payload.id] = payload
SagaAddDocument(state, payload) == Put(state, payload.id, payload)

\* addPage: state[documentId].pages.push(page)  (no existence check)
SagaAddPage(state, documentId, page) ==
  Put(state, documentId,
      [state[documentId] EXCEPT !.pages = Append(state[documentId].pages, page)])

\* addDocumentToWorkspace of the saga slice: imported by the saga and the
\* observable routes; idempotent insert into workspaceIds
SagaAddDocumentToWorkspace(state, documentId, workspaceId) ==
  IF documentId \in DOMAIN state /\ ~Includes(state[documentId].workspaceIds, workspaceId)
  THEN Put(state, documentId,
           [state[documentId] EXCEPT
              !.workspaceIds = Append(state[documentId].workspaceIds, workspaceId)])
  ELSE state

\* mutant: the fetched records are stored whole, documents list included
SagaSetWorkspacesWhole(state, payload) ==
  [k \in (DOMAIN state) \cup {payload[j].id : j \in DOMAIN payload} |->
     IF \E j \in DOMAIN payload : payload[j].id = k
     THEN payload[CHOOSE j \in DOMAIN payload : payload[j].id = k]
     ELSE state[k]]

\* setWorkspaces
SagaSetWorkspaces(state, payload) == MergeWorkspaces(state, payload)

(* ---- Zustand: useDocumentsStore / useWorkspacesStore ---- *)
\* addDocument
ZustandAddDocument(state, document) == Put(state, document.id, document)

\* mutant: the page is appended to every document
ZustandAddPageEverywhere(state, documentId, page) ==
  [k \in DOMAIN state |-> [state[k] EXCEPT !.pages = Append(state[k].pages, page)]]

\* mutant: the page is added to the record the workflow built, not to the
\* store's current record
ZustandAddPageToOwnCopy(state, documentId, page) ==
  Put(state, documentId, [NewDocument(documentId) EXCEPT !.pages = <<page>>])

\* addPage: spreads state.documents[documentId] (no existence check)
ZustandAddPage(state, documentId, page) ==
  Put(state, documentId,
      [state[documentId] EXCEPT !.pages = Append(state[documentId].pages, page)])

\* mutant: the includes() test is missing
ZustandAddDocumentToWorkspaceUnchecked(state, documentId, workspaceId) ==
  IF documentId \in DOMAIN state
  THEN Put(state, documentId,
           [state[documentId] EXCEPT
              !.workspaceIds = Append(state[documentId].workspaceIds, workspaceId)])
  ELSE state

\* mutant: the new workspace id is put in front of the others
ZustandAddDocumentToWorkspaceInFront(state, documentId, workspaceId) ==
  IF documentId \in DOMAIN state /\ ~Includes(state[documentId].workspaceIds, workspaceId)
  THEN Put(state, documentId,
           [state[documentId] EXCEPT
              !.workspaceIds = <<workspaceId>> \o state[documentId].workspaceIds])
  ELSE state

\* addDocumentToWorkspace
ZustandAddDocumentToWorkspace(state, documentId, workspaceId) ==
  IF documentId \in DOMAIN state /\ ~Includes(state[documentId].workspaceIds, workspaceId)
  THEN Put(state, documentId,
           [state[documentId] EXCEPT
              !.workspaceIds = Append(state[documentId].workspaceIds, workspaceId)])
  ELSE state

\* workspacesRecord = {} ; forEach ... ; set({ workspaces: workspacesRecord })
ZustandSetWorkspaces(state, payload) == MergeWorkspaces(<<>>, payload)

(* ---- MobX-Keystone: Document / DocumentsStore / WorkspacesStore ---- *)
\* mutant: the record is stored under its path
MobxAddDocumentByPath(state, document) == Put(state, document.path, document)

\* DocumentsStore.addDocument: this.documents[document.id] = document
MobxAddDocument(state, document) == Put(state, document.id, document)

\* Document.addPage: this.pages.push(page).  The workflow holds the Document
\* object itself; it is the store's entry as long as that id is not re-inserted.
MobxAddPage(state, documentId, page) ==
  IF documentId \notin DOMAIN state THEN state
  ELSE Put(state, documentId,
           [state[documentId] EXCEPT !.pages = Append(state[documentId].pages, page)])

\* handleAddToWorkspace: getDocument(id), then Document.addToWorkspace
MobxAddToWorkspace(state, documentId, workspaceId) ==
  IF documentId \notin DOMAIN state THEN state
  ELSE IF ~Includes(state[documentId].workspaceIds, workspaceId)
       THEN Put(state, documentId,
                [state[documentId] EXCEPT
                   !.workspaceIds = Append(state[documentId].workspaceIds, workspaceId)])
       ELSE state

\* for (const w of workspaces) this.workspaces[w.id] = new Workspace({id, name})
MobxSetWorkspaces(state, payload) == MergeWorkspaces(state, payload)

(* ---- Effect-Atom: DocumentRepositoryLive ---- *)
\* mutant: a document whose id is already stored is kept, not replaced
EffectAddDocumentKeepExisting(state, document) ==
  IF document.id \in DOMAIN state THEN state ELSE Put(state, document.id, document)

\* SubscriptionRef.update(documentsRef, d => ({ ...d, [documentId]: document }))
EffectAddDocument(state, document) == Put(state, document.id, document)

\* createPage's SubscriptionRef.update: returns documents when the document is missing
EffectAddPage(state, documentId, page) ==
  IF documentId \notin DOMAIN state THEN state
  ELSE Put(state, documentId,
           [state[documentId] EXCEPT !.pages = Append(state[documentId].pages, page)])

\* mutant: the updated document is rebuilt without its pages
EffectAddDocumentToWorkspaceDropsPages(state, documentId, workspaceId) ==
  IF documentId \notin DOMAIN state \/ Includes(state[documentId].workspaceIds, workspaceId)
  THEN state
  ELSE Put(state, documentId,
           [state[documentId] EXCEPT
              !.pages = <<>>,
              !.workspaceIds = Append(state[documentId].workspaceIds, workspaceId)])

\* addDocumentToWorkspace's SubscriptionRef.update
EffectAddDocumentToWorkspace(state, documentId, workspaceId) ==
  IF documentId \notin DOMAIN state \/ Includes(state[documentId].workspaceIds, workspaceId)
  THEN state
  ELSE Put(state, documentId,
           [state[documentId] EXCEPT
              !.workspaceIds = Append(state[documentId].workspaceIds, workspaceId)])

\* SubscriptionRef.set(workspacesRef, workspacesRecord) with a fresh record
EffectSetWorkspaces(state, payload) == MergeWorkspaces(<<>>, payload)

(* ---- dispatch on the variant ---- *)
AddDocument(v, state, document) ==
  CASE v = "vanilla" -> VanillaDocumentAdded(state, document)
    [] v = "thunk" -> ThunkAddDocument(state, document)
    [] v \in {"saga", "observable"} -> SagaAddDocument(state, document)
    [] v = "zustand" -> ZustandAddDocument(state, document)
    [] v = "mobx" -> MobxAddDocument(state, document)
    [] v = "effect" -> EffectAddDocument(state, document)

\* the page-add operations that dereference the document without a check
\* throw a TypeError when it is missing
AddPageThrows(v, state, documentId) ==
  v \in {"thunk", "saga", "observable", "zustand"} /\ documentId \notin DOMAIN state

AddPage(v, state, documentId, page) ==
  CASE v = "vanilla" -> VanillaDocumentPageAdded(state, documentId, page)
    [] v = "thunk" -> ThunkAddPage(state, documentId, page)
    [] v \in {"saga", "observable"} -> SagaAddPage(state, documentId, page)
    [] v = "zustand" -> ZustandAddPage(state, documentId, page)
    [] v = "mobx" -> MobxAddPage(state, documentId, page)
    [] v = "effect" -> EffectAddPage(state, documentId, page)

AddToWorkspace(v, state, documentId, workspaceId) ==
  CASE v = "vanilla" -> VanillaDocumentAddedToWorkspace(state, documentId, workspaceId)
    [] v = "thunk" -> ThunkAddDocumentToWorkspace(state, documentId, workspaceId)
    [] v \in {"saga", "observable"} -> SagaAddDocumentToWorkspace(state, documentId, workspaceId)
    [] v = "zustand" -> ZustandAddDocumentToWorkspace(state, documentId, workspaceId)
    [] v = "mobx" -> MobxAddToWorkspace(state, documentId, workspaceId)
    [] v = "effect" -> EffectAddDocumentToWorkspace(state, documentId, workspaceId)

SetWorkspaces(v, state, payload) ==
  CASE v = "vanilla" -> VanillaWorkspacesSet(state, payload)
    [] v = "thunk" -> ThunkWorkspacesFulfilled(state, payload)
    [] v \in {"saga", "observable"} -> SagaSetWorkspaces(state, payload)
    [] v = "zustand" -> ZustandSetWorkspaces(state, payload)
    [] v = "mobx" -> MobxSetWorkspaces(state, payload)
    [] v = "effect" -> EffectSetWorkspaces(state, payload)

RECURSIVE AddDocuments(_, _, _)
\* one addDocument per fetched document, in order
AddDocuments(v, state, docs) ==
  IF docs = <<>> THEN state
  ELSE AddDocuments(v, AddDocument(v, state, Head(docs)), Tail(docs))

\* mutant: the fetch replaces the documents collection by the fetched documents
DocumentDispatchesReplace(v, state, docs) == <<AddDocuments(v, <<>>, docs)>>

RECURSIVE DocumentDispatches(_, _, _)
\* the documents collection after each store update that a fetch makes for the
\* fetched documents: one addDocument per document (Effect-Atom: one
\* SubscriptionRef.update for all of them)
DocumentDispatches(v, state, docs) ==
  IF docs = <<>> THEN <<>>
  ELSE IF v = "effect" THEN <<AddDocuments(v, state, docs)>>
  ELSE LET next == AddDocument(v, state, Head(docs))
       IN <<next>> \o DocumentDispatches(v, next, Tail(docs))

\* mutant: the workspaces update is made before the documents are inserted
FetchStoresWorkspacesFirst(v, docs, wss, payload) ==
  LET set == SetWorkspaces(v, wss, payload)
      steps == DocumentDispatches(v, docs, Flatten(payload))
  IN <<[documents |-> docs, workspaces |-> set]>>
       \o [k \in DOMAIN steps |-> [documents |-> steps[k], workspaces |-> set]]

\* the store after each update of a fetch whose delay has resolved: the
\* document insertions first, the workspaces update last
FetchStores(v, docs, wss, payload) ==
  LET steps == DocumentDispatches(v, docs, Flatten(payload))
  IN [k \in DOMAIN steps |-> [documents |-> steps[k], workspaces |-> wss]]
       \o <<[documents |-> steps[Len(steps)],
             workspaces |-> SetWorkspaces(v, wss, payload)]>>

(* ============================== workflows ============================= *)
\* mutant: the saga puts addPage before calling createDocumentDirectory
EagerPageAlsoSaga(v) == v \in {"vanilla", "observable", "saga"}

\* variants whose create-document inserts the page together with the document,
\* before the first delay (vanilla thunk, observable epic)
EagerPage(v) == v \in {"vanilla", "observable"}

\* console.error / Effect.logError calls of one create-document workflow once
\* writePageContents has failed
FailureLogs(v) ==
  CASE v \in {"vanilla", "observable", "effect"} -> 1
    [] v \in {"saga", "zustand", "mobx"} -> 2
    [] v = "thunk" -> 0

\* success logs emitted after the failure: only Effect-Atom's catchAll lets
\* createDocument go on to Effect.log("Created document ...")
SuccessLogs(v) == IF v = "effect" THEN 1 ELSE 0

\* mutant: createDocumentSaga's catch re-throws like createPageSaga's
SagaCatchChainRethrows == <<"rethrow", "rethrow">>

\* the handlers an error of writePageContents meets on its way out of the
\* workflow, innermost first: createPageSaga's catch logs and re-throws,
\* createDocumentSaga's catch logs only
SagaCatchChain == <<"rethrow", "swallow">>

\* createPageEpic: the inner catchError logs and returns EMPTY
ObservableCatchChain == <<"swallow">>

CatchChain(v) ==
  CASE v = "saga" -> SagaCatchChain
    [] v = "observable" -> ObservableCatchChain
    [] v \in {"zustand", "mobx"} -> <<"rethrow", "swallow">>
    [] v \in {"vanilla", "effect", "thunk"} -> <<"swallow">>

\* the error leaves the workflow uncaught
WriteFailureEscapes(v) == \A h \in DOMAIN CatchChain(v) : CatchChain(v)[h] = "rethrow"

\* variants whose workflows are started by a long-running watcher (takeEvery
\* under rootSaga, the epics under rootEpic)
HasRoot(v) == v \in {"saga", "observable"}

\* mutant: createDocumentDirectory rejects
StepFailsDocumentDirectory(v, step) == step \in {"writePageContents", "createDocumentDirectory"}

\* mutant: createPageDirectory rejects as well
StepFailsPageDirectoryToo(v, step) == step \in {"writePageContents", "createPageDirectory"}

\* the outcome of a simulated I/O step: writePageContents throws ("LOL" /
\* Effect.fail) in every variant; createDocumentDirectory, createPageDirectory
\* and the workspace fetch resolve after their delay
StepFails(v, step) == step = "writePageContents"

\* console.log / Effect.log calls that follow a successful writePageContents
CompletionLogs(v) ==
  CASE v \in {"saga", "zustand", "mobx", "effect"} -> 2
    [] v \in {"thunk", "observable"} -> 1
    [] v = "vanilla" -> 0

\* what the handler of a createDocumentDirectory failure does to the documents
\* collection: the vanilla thunk and the epic dispatch removeDocument
OnDirectoryFailure(v, state, documentId) ==
  IF v \in {"vanilla", "observable"}
  THEN [k \in (DOMAIN state) \ {documentId} |-> state[k]]
  ELSE state

\* mutant: createDocument does not test the result of createPage
ThunkResultChecksPageIgnored == <<"throw", "ignore">>

\* what each enclosing Redux Toolkit thunk does with the rejected action that
\* dispatching its inner thunk returns, innermost first: createPage tests
\* writePageContents.rejected.match and throws, createDocument tests
\* createPage.rejected.match and throws
ThunkResultChecks == <<"throw", "throw">>

\* the action a createDocument thunk settles with
ThunkSettlement(failed) ==
  IF failed /\ \A c \in DOMAIN ThunkResultChecks : ThunkResultChecks[c] = "throw"
  THEN "rejected" ELSE "fulfilled"

\* how the outermost promise / thunk / saga / effect of a create-document
\* workflow ends: a failure that a handler swallows lets it complete normally
Settlement(v, failed) ==
  IF v = "thunk" THEN ThunkSettlement(failed)
  ELSE IF failed /\ WriteFailureEscapes(v) THEN "rejected"
  ELSE "fulfilled"

\* mutant: createDocument returns the store's copy of the document
EffectCreateDocumentReturnsStored(state, document) == state[document.id]

\* return document: the value of the local constant built before the first
\* store update
EffectCreateDocumentReturns(state, document) == document

\* the value the workflow hands back to its caller, if the variant's
\* createDocument returns one on this path
Returned(v, failed, state, documentId) ==
  IF v = "effect" /\ Settlement(v, failed) = "fulfilled"
  THEN <<EffectCreateDocumentReturns(state, NewDocument(documentId))>>
  ELSE <<>>

\* what one run of the steps after the createPageDirectory delay adds to the
\* workflow's counters
PageOutcome(v) ==
  IF StepFails(v, "createPageDirectory")
  THEN [failed |-> TRUE, writes |-> 0, writeFailures |-> 0, stepFailures |-> 1,
        errors |-> FailureLogs(v), oks |-> 0]
  ELSE IF StepFails(v, "writePageContents")
  THEN [failed |-> TRUE, writes |-> 1, writeFailures |-> 1, stepFailures |-> 0,
        errors |-> FailureLogs(v), oks |-> SuccessLogs(v)]
  ELSE [failed |-> FALSE, writes |-> 1, writeFailures |-> 0, stepFailures |-> 0,
        errors |-> 0, oks |-> CompletionLogs(v)]

\* mutant: the failure handler removes the optimistically inserted document
OnWriteFailureRollback(v, state, documentId) == VanillaDocumentRemoved(state, documentId)

\* what the handler of the writePageContents failure does to the documents
\* collection: every variant's catch only logs (the removeDocument rollbacks sit
\* on the createDocumentDirectory failure path, which is never taken)
OnWriteFailure(v, state, documentId) == state

QueuedWorkflow ==
  [pc |-> "queued", docId |-> "", pageId |-> "", dirId |-> "", pagePath |-> "",
   writes |-> 0, writeFailures |-> 0, stepFailures |-> 0,
   errors |-> 0, oks |-> 0, threw |-> FALSE, result |-> "", returned |-> <<>>,
   early |-> {}]

\* mutant: the document is not inserted before the first delay
StartWorkflowDeferred(v, docs, n) ==
  [documents |-> docs,
   wf |-> [QueuedWorkflow EXCEPT !.pc = "docDir", !.docId = UUID(n + 1),
                                 !.pageId = UUID(n + 2), !.dirId = UUID(n + 2)],
   uuids |-> n + 2]

\* the synchronous head of a create-document workflow, run with n ids already
\* generated: generate the id(s), insert the document (and the page when eager)
StartWorkflow(v, docs, n) ==
  LET id == UUID(n + 1)
      withDoc == AddDocument(v, docs, NewDocument(id))
  IN IF EagerPage(v)
     THEN LET pageId == UUID(n + 2) IN
          [documents |-> AddPage(v, withDoc, id, NewPage(pageId)),
           wf |-> [QueuedWorkflow EXCEPT !.pc = "docDir", !.docId = id,
                                         !.pageId = pageId, !.dirId = pageId],
           uuids |-> n + 2]
     ELSE [documents |-> withDoc,
           wf |-> [QueuedWorkflow EXCEPT !.pc = "docDir", !.docId = id],
           uuids |-> n + 1]

Delay(kind) == IF kind = "fetch" THEN FetchDelay ELSE DirectoryDelay

Timer(kind, wf) == [kind |-> kind, wf |-> wf, rem |-> Delay(kind)]

\* mutant: any timer that is due may fire, whatever its creation order
CanFireAnyDue(i) == timers[i].rem = 0

\* a timer fires at its deadline; timers of equal delay fire in creation order
CanFire(i) ==
  /\ timers[i].rem = 0
  /\ \A j \in 1..(i - 1) : Delay(timers[j].kind) # Delay(timers[i].kind)

RemoveAt(seq, i) == SubSeq(seq, 1, i - 1) \o SubSeq(seq, i + 1, Len(seq))

\* concatMap runs one inner workflow at a time
EpicBusy == \E i \in DOMAIN workflows : workflows[i].pc \in {"docDir", "pageDir"}

\* requests issued so far
Requests == Len(workflows) + Len(fetches) + adds

\* bookkeeping of the last request or step: for an add-document-to-workspace,
\* its arguments, whether the workspace id was already in the document's
\* workspaceIds, and whether the step before it was the same request; for a
\* fetch that settled, the (document, workspace id) pairs it removed
Op(op, doc, ws, present) ==
  [op |-> op, doc |-> doc, ws |-> ws, present |-> present, again |-> FALSE,
   dropped |-> {}]

\* the (document id, workspace id) pairs held by before and no longer by after
Dropped(before, after) ==
  {p \in UNION {{<<d, before[d].workspaceIds[k]>> : k \in DOMAIN before[d].workspaceIds} :
                  d \in DOMAIN before} :
     ~(p[1] \in DOMAIN after /\ Includes(after[p[1]].workspaceIds, p[2]))}

\* a workflow has ended leaving workflows wfs, documents docs, n ids used and
\* timers rest: concatMap (observable) subscribes to the oldest buffered request
StartNextQueued(v, wfs, docs, n, rest) ==
  LET queued == {k \in DOMAIN wfs : wfs[k].pc = "queued"} IN
  IF v = "observable" /\ queued # {}
  THEN LET k == CHOOSE q \in queued : \A r \in queued : q <= r
           s == StartWorkflow(v, docs, n)
       IN [documents |-> s.documents, workflows |-> [wfs EXCEPT ![k] = s.wf],
           uuids |-> s.uuids, timers |-> Append(rest, Timer("docDir", k))]
  ELSE [documents |-> docs, workflows |-> wfs, uuids |-> n, timers |-> rest]

(* ---- the vanilla Redux variant, run on the same requests (reference) ---- *)
\* its store, its pending fetchWorkspaces delays and its id counter; its
\* directory delays are not kept: in the vanilla thunk nothing follows them
\* but the failing writePageContents and its console.error
ReferenceInit == [documents |-> <<>>, workspaces |-> <<>>, timers |-> <<>>, uuids |-> 0]

\* dispatch(createDocument()): document and page inserted before the first await
ReferenceCreateDocument(r) ==
  LET s == StartWorkflow("vanilla", r.documents, r.uuids)
  IN [r EXCEPT !.documents = s.documents, !.uuids = s.uuids]

\* dispatch(fetchWorkspaces()) for request f: the 500 ms delay starts
ReferenceFetchWorkspaces(r, f) ==
  [r EXCEPT !.timers = Append(@, [fetch |-> f, rem |-> FetchDelay])]

\* the oldest pending fetch delay resolves
ReferenceWorkspacesFetched(r) ==
  [r EXCEPT !.documents = AddDocuments("vanilla", @, FixtureDocuments),
            !.workspaces = SetWorkspaces("vanilla", @, FixtureWorkspaces),
            !.timers = Tail(@)]

RECURSIVE ReferenceFetchedThrough(_, _)
\* the fetch delays resolve in creation order, up to that of request f
ReferenceFetchedThrough(r, f) ==
  IF r.timers = <<>> THEN r
  ELSE IF Head(r.timers).fetch = f THEN ReferenceWorkspacesFetched(r)
  ELSE ReferenceFetchedThrough(ReferenceWorkspacesFetched(r), f)

\* the id of the k-th created document in the vanilla run (two ids per create)
ReferenceDocumentId(k) == UUID(2 * k - 1)

\* the document of the vanilla run that documentId denotes: the document
\* created by the same request, or the same fixture document
ReferenceId(documentId) ==
  IF \E k \in DOMAIN workflows : workflows[k].docId = documentId
  THEN ReferenceDocumentId(CHOOSE k \in DOMAIN workflows : workflows[k].docId = documentId)
  ELSE documentId

\* dispatch(addDocumentToWorkspace(documentId, workspaceId))
ReferenceAddDocumentToWorkspace(r, documentId, workspaceId) ==
  [r EXCEPT !.documents = AddToWorkspace("vanilla", @, documentId, workspaceId)]

\* 100 ms pass
ReferenceTick(r) ==
  [r EXCEPT !.timers = [i \in DOMAIN r.timers |-> [r.timers[i] EXCEPT !.rem = @ - 1]]]

\* create-document workflows that have ended in the content-write failure
Failed == {i \in DOMAIN workflows : workflows[i].writes > 0}

\* the request (kind, index) is recorded when a workflow has failed before it
NoteRequest(kind, index) ==
  issuedAfterFailure' =
    IF Failed # {} THEN issuedAfterFailure \cup {<<kind, index>>} ELSE issuedAfterFailure

\* workflows whose document / page is in the store
Inserted == {k \in DOMAIN workflows : workflows[k].docId \in DOMAIN documents}
Paged ==
  {k \in Inserted :
     \E p \in DOMAIN documents[workflows[k].docId].pages :
       documents[workflows[k].docId].pages[p].id = workflows[k].pageId}

RECURSIVE Ascending(_)
\* the elements of a finite set of numbers, smallest first
Ascending(set) ==
  IF set = {} THEN <<>>
  ELSE LET m == CHOOSE x \in set : \A y \in set : x <= y
       IN <<m>> \o Ascending(set \ {m})

\* the step's insertions and handled failures are appended to the chronicle
Chronicled ==
  chronicle' = [documents |-> chronicle.documents \o Ascending(Inserted' \ Inserted),
                pages |-> chronicle.pages \o Ascending(Paged' \ Paged),
                failures |-> chronicle.failures \o Ascending(Failed' \ Failed)]

Init ==
  /\ variant \in Variants
  /\ chronicle = [documents |-> <<>>, pages |-> <<>>, failures |-> <<>>]
  /\ issuedAfterFailure = {}
  /\ reference = ReferenceInit
  /\ rootRunning = TRUE
  /\ documents = <<>>
  /\ workspaces = <<>>
  /\ workflows = <<>>
  /\ fetches = <<>>
  /\ timers = <<>>
  /\ uuids = 0
  /\ adds = 0
  /\ last = Op("other", "", "", FALSE)

\* the user clicks "create document"
CreateDocumentRequest ==
  /\ Requests < MaxRequests
  /\ IF HasRoot(variant) /\ ~rootRunning
     THEN /\ workflows' = Append(workflows, [QueuedWorkflow EXCEPT !.pc = "ignored"])
          /\ last' = Op("other", "", "", FALSE)
          /\ UNCHANGED <<documents, timers, uuids>>
     ELSE IF variant = "observable" /\ EpicBusy
     THEN /\ workflows' = Append(workflows, QueuedWorkflow)
          /\ last' = Op("other", "", "", FALSE)
          /\ UNCHANGED <<documents, timers, uuids>>
     ELSE LET s == StartWorkflow(variant, documents, uuids) IN
          /\ documents' = s.documents
          /\ workflows' = Append(workflows, s.wf)
          /\ uuids' = s.uuids
          /\ timers' = Append(timers, Timer("docDir", Len(workflows) + 1))
          /\ last' = Op("other", "", "", FALSE)
  /\ reference' = ReferenceCreateDocument(reference)
  /\ NoteRequest("create", Len(workflows) + 1)
  /\ Chronicled
  /\ UNCHANGED <<variant, workspaces, fetches, adds, rootRunning>>

\* the createDocumentDirectory delay of workflow timers[i].wf resolves
DocumentDirectoryCreated(i) ==
  /\ timers[i].kind = "docDir"
  /\ CanFire(i)
  /\ LET w == timers[i].wf
         wf == workflows[w]
         rest == RemoveAt(timers, i)
     IN IF StepFails(variant, "createDocumentDirectory")
        THEN LET next == StartNextQueued(
                           variant,
                           [workflows EXCEPT
                              ![w].pc = "settled", ![w].stepFailures = @ + 1,
                              ![w].result = Settlement(variant, TRUE),
                              ![w].errors = @ + (IF variant = "thunk" THEN 0 ELSE 1)],
                           OnDirectoryFailure(variant, documents, wf.docId), uuids, rest)
             IN /\ workflows' = next.workflows
                /\ documents' = next.documents
                /\ uuids' = next.uuids
                /\ timers' = next.timers
        ELSE IF EagerPage(variant)
        THEN /\ workflows' = [workflows EXCEPT ![w].pc = "pageDir"]
             /\ timers' = Append(rest, Timer("pageDir", w))
             /\ UNCHANGED <<documents, uuids>>
        ELSE LET dirId == UUID(uuids + 1)
                 pageId == IF variant = "thunk" THEN UUID(uuids + 2) ELSE dirId
                 used == IF variant = "thunk" THEN uuids + 2 ELSE uuids + 1
             IN /\ uuids' = used
                /\ IF AddPageThrows(variant, documents, wf.docId)
                   THEN /\ workflows' = [workflows EXCEPT
                                           ![w].pc = "settled", ![w].threw = TRUE,
                                           ![w].result = Settlement(variant, TRUE),
                                           ![w].errors = FailureLogs(variant)]
                        /\ timers' = rest
                        /\ UNCHANGED documents
                   ELSE /\ documents' = AddPage(variant, documents, wf.docId, NewPage(pageId))
                        /\ workflows' = [workflows EXCEPT
                                           ![w].pc = "pageDir", ![w].pageId = pageId,
                                           ![w].dirId = dirId]
                        /\ timers' = Append(rest, Timer("pageDir", w))
  /\ last' = Op("other", "", "", FALSE)
  /\ UNCHANGED <<variant, workspaces, fetches, adds, reference, rootRunning,
                 issuedAfterFailure>>
  /\ Chronicled

\* the createPageDirectory delay resolves; writePageContents is invoked and
\* fails; the failure is handled and the workflow settles.  In the observable
\* variant the completed inner observable lets concatMap start the next request.
PageDirectoryCreated(i) ==
  /\ timers[i].kind = "pageDir"
  /\ CanFire(i)
  /\ LET w == timers[i].wf
         wf == workflows[w]
         rest == RemoveAt(timers, i)
         out == PageOutcome(variant)
         settled == [workflows EXCEPT
                       ![w].pc = "settled",
                       ![w].pagePath = ("C:/Users/trey/" \o wf.docId) \o "/" \o wf.dirId,
                       ![w].writes = wf.writes + out.writes,
                       ![w].writeFailures = wf.writeFailures + out.writeFailures,
                       ![w].stepFailures = wf.stepFailures + out.stepFailures,
                       ![w].errors = wf.errors + out.errors,
                       ![w].oks = wf.oks + out.oks,
                       ![w].result = Settlement(variant, out.failed),
                       ![w].returned = Returned(variant, out.failed, documents, wf.docId)]
         docs == IF out.failed THEN OnWriteFailure(variant, documents, wf.docId)
                 ELSE documents
     IN IF HasRoot(variant) /\ out.failed /\ WriteFailureEscapes(variant)
        THEN \* the uncaught error ends the root and cancels every running task
             /\ workflows' = [k \in DOMAIN workflows |->
                                IF k = w THEN settled[w]
                                ELSE IF workflows[k].pc \in {"docDir", "pageDir", "queued"}
                                     THEN [workflows[k] EXCEPT !.pc = "cancelled"]
                                     ELSE workflows[k]]
             /\ fetches' = [k \in DOMAIN fetches |->
                              IF fetches[k] = "pending" THEN "cancelled" ELSE fetches[k]]
             /\ timers' = <<>>
             /\ documents' = docs
             /\ rootRunning' = FALSE
             /\ UNCHANGED uuids
        ELSE LET next == StartNextQueued(variant, settled, docs, uuids, rest)
             IN /\ workflows' = next.workflows
                /\ documents' = next.documents
                /\ uuids' = next.uuids
                /\ timers' = next.timers
                /\ UNCHANGED <<fetches, rootRunning>>
  /\ last' = Op("other", "", "", FALSE)
  /\ UNCHANGED <<variant, workspaces, adds, reference, issuedAfterFailure>>
  /\ Chronicled

\* the user clicks "load workspaces"; switchMap (observable) drops the pending fetch
FetchWorkspacesRequest ==
  /\ Requests < MaxRequests
  /\ LET f == Len(fetches) + 1 IN
     IF HasRoot(variant) /\ ~rootRunning
     THEN /\ fetches' = Append(fetches, "ignored")
          /\ UNCHANGED timers
     ELSE IF variant = "observable"
     THEN /\ fetches' = Append([k \in DOMAIN fetches |->
                                  IF fetches[k] = "pending" THEN "cancelled" ELSE fetches[k]],
                               "pending")
          /\ timers' = Append(SelectSeq(timers, LAMBDA t : t.kind # "fetch"), Timer("fetch", f))
     ELSE /\ fetches' = Append(fetches, "pending")
          /\ timers' = Append(timers, Timer("fetch", f))
  /\ last' = Op("other", "", "", FALSE)
  /\ reference' = ReferenceFetchWorkspaces(reference, Len(fetches) + 1)
  /\ NoteRequest("fetch", Len(fetches) + 1)
  /\ UNCHANGED chronicle
  /\ UNCHANGED <<variant, documents, workspaces, workflows, uuids, adds, rootRunning>>

\* the 500 ms fetch delay resolves: one addDocument per fixture document, then
\* the workspaces update
WorkspacesFetched(i) ==
  /\ timers[i].kind = "fetch"
  /\ CanFire(i)
  /\ IF StepFails(variant, "fetchWorkspaces")
     THEN /\ fetches' = [fetches EXCEPT ![timers[i].wf] = "failed"]
          /\ UNCHANGED <<documents, workspaces>>
     ELSE LET stores == FetchStores(variant, documents, workspaces, FixtureWorkspaces)
          IN /\ documents' = stores[Len(stores)].documents
             /\ workspaces' = stores[Len(stores)].workspaces
             /\ fetches' = [fetches EXCEPT ![timers[i].wf] = "settled"]
  /\ timers' = RemoveAt(timers, i)
  /\ last' = [Op("other", "", "", FALSE) EXCEPT !.dropped = Dropped(documents, documents')]
  /\ reference' = ReferenceFetchedThrough(reference, timers[i].wf)
  /\ UNCHANGED <<variant, workflows, uuids, adds, rootRunning, issuedAfterFailure,
                 chronicle>>

\* a fetch delay of the vanilla run resolves whose request the variant under
\* test has dropped
ReferenceOnlyWorkspacesFetched ==
  /\ reference.timers # <<>>
  /\ Head(reference.timers).rem = 0
  /\ \A t \in DOMAIN timers :
       ~(timers[t].kind = "fetch" /\ timers[t].wf = Head(reference.timers).fetch)
  /\ reference' = ReferenceWorkspacesFetched(reference)
  /\ UNCHANGED <<variant, documents, workspaces, workflows, fetches, timers,
                 uuids, adds, last, rootRunning, issuedAfterFailure, chronicle>>

\* ids the add-document-to-workspace operation is invoked with
AddDocumentIds ==
  {"doc-workspace-1-1"} \cup
  {workflows[i].docId : i \in {k \in DOMAIN workflows : workflows[k].pc # "queued"}}
AddWorkspaceIds == {"workspace-1", "workspace-x"}

\* add-document-to-workspace (a synchronous store update)
AddDocumentToWorkspace(documentId, workspaceId) ==
  /\ Requests < MaxRequests
  /\ adds' = adds + 1
  /\ documents' = AddToWorkspace(variant, documents, documentId, workspaceId)
  /\ last' = [Op("add", documentId, workspaceId,
                   documentId \in DOMAIN documents
                     /\ Includes(documents[documentId].workspaceIds, workspaceId))
               EXCEPT !.again = (last.op = "add" /\ last.doc = documentId
                                   /\ last.ws = workspaceId)]
  /\ reference' = ReferenceAddDocumentToWorkspace(reference, ReferenceId(documentId),
                                                  workspaceId)
  /\ workflows' = [k \in DOMAIN workflows |->
                     IF workflows[k].docId = documentId /\ workflows[k].pc = "docDir"
                     THEN [workflows[k] EXCEPT !.early = @ \cup {workspaceId}]
                     ELSE workflows[k]]
  /\ UNCHANGED <<variant, workspaces, fetches, timers, uuids, rootRunning,
                 issuedAfterFailure, chronicle>>

\* 100 ms pass; no timer is overdue
Tick ==
  /\ timers # <<>>
  /\ \A i \in DOMAIN timers : timers[i].rem > 0
  /\ \A i \in DOMAIN reference.timers : reference.timers[i].rem > 0
  /\ timers' = [i \in DOMAIN timers |-> [timers[i] EXCEPT !.rem = @ - 1]]
  /\ reference' = ReferenceTick(reference)
  /\ UNCHANGED <<variant, documents, workspaces, workflows, fetches, uuids, adds, last,
                 rootRunning, issuedAfterFailure, chronicle>>

Next ==
  \/ CreateDocumentRequest
  \/ FetchWorkspacesRequest
  \/ \E d \in AddDocumentIds, w \in AddWorkspaceIds : AddDocumentToWorkspace(d, w)
  \/ \E i \in DOMAIN timers : DocumentDirectoryCreated(i)
  \/ \E i \in DOMAIN timers : PageDirectoryCreated(i)
  \/ \E i \in DOMAIN timers : WorkspacesFetched(i)
  \/ ReferenceOnlyWorkspacesFetched
  \/ Tick

Spec == Init /\ [][Next]_vars

\* the event loop: time passes and every due setTimeout callback is run; the
\* user's requests are under no obligation
FairSpec ==
  /\ Spec
  /\ WF_vars(Tick)
  /\ WF_vars(\E i \in DOMAIN timers : DocumentDirectoryCreated(i))
  /\ WF_vars(\E i \in DOMAIN timers : PageDirectoryCreated(i))
  /\ WF_vars(\E i \in DOMAIN timers : WorkspacesFetched(i))
  /\ WF_vars(ReferenceOnlyWorkspacesFetched)

(* ============================== properties ============================ *)
Settled(i) == workflows[i].pc = "settled"
AllSettled ==
  /\ \A i \in DOMAIN workflows : Settled(i)
  /\ \A i \in DOMAIN fetches : fetches[i] # "pending"
SettledFetches == {i \in DOMAIN fetches : fetches[i] = "settled"}
HasPage(doc, pageId) == \E p \in DOMAIN doc.pages : doc.pages[p].id = pageId

\* C1: once a create-document workflow has settled, the document it created is
\* in the store with exactly one page, titled "New Page" with empty content,
\* whatever other requests were interleaved with it.
C1_SettledDocumentHasOneNewPage ==
  \A i \in DOMAIN workflows :
    Settled(i) =>
      /\ workflows[i].docId \in DOMAIN documents
      /\ Len(documents[workflows[i].docId].pages) = 1
      /\ documents[workflows[i].docId].pages[1].title = "New Page"
      /\ documents[workflows[i].docId].pages[1].content = ""

\* a workflow settled in a run that also created a second document, settled a
\* fetch and added the created document to a workspace
C1_Witness ==
  /\ Len(workflows) >= 2
  /\ Settled(1)
  /\ SettledFetches # {}
  /\ workflows[1].docId \in DOMAIN documents
  /\ documents[workflows[1].docId].workspaceIds # <<>>

\* C2: N create-document requests produce, once all workflows have settled, N
\* documents with pairwise distinct ids, and the page created by workflow k is
\* in the pages list of document k and of no other document.
C2_DistinctDocumentsOwnPages ==
  AllSettled =>
    /\ \A i, j \in DOMAIN workflows : i # j => workflows[i].docId # workflows[j].docId
    /\ Cardinality({d \in DOMAIN documents : documents[d].title = "New Document"})
         = Len(workflows)
    /\ \A k \in DOMAIN workflows : \A d \in DOMAIN documents :
         HasPage(documents[d], workflows[k].pageId) <=> d = workflows[k].docId
    /\ \A d \in DOMAIN documents : \A p, q \in DOMAIN documents[d].pages :
         p # q => documents[d].pages[p].id # documents[d].pages[q].id

C2_Witness == AllSettled /\ Len(workflows) >= 3 /\ SettledFetches # {}

\* the fixture as the claim states it
ExpectedWorkspaces ==
  ("workspace-1" :> [id |-> "workspace-1", name |-> "Personal Projects"]) @@
  ("workspace-2" :> [id |-> "workspace-2", name |-> "Work Documents"]) @@
  ("workspace-3" :> [id |-> "workspace-3", name |-> "Research"])
ExpectedOwner ==
  ("doc-workspace-1-1" :> "workspace-1") @@ ("doc-workspace-1-2" :> "workspace-1") @@
  ("doc-workspace-2-1" :> "workspace-2") @@
  ("doc-workspace-3-1" :> "workspace-3") @@ ("doc-workspace-3-2" :> "workspace-3")

\* C3: when a fetch-workspaces workflow settles, the workspaces collection holds
\* exactly the three fixture workspaces and the documents collection holds the
\* five fixture documents, each with no pages and workspaceIds equal to its
\* single owning workspace.
C3_FetchYieldsFixture ==
  [][(\E i \in DOMAIN fetches : fetches[i] = "pending" /\ fetches'[i] = "settled") =>
       /\ workspaces' = ExpectedWorkspaces
       /\ \A d \in DOMAIN ExpectedOwner :
            /\ d \in DOMAIN documents'
            /\ documents'[d].id = d
            /\ documents'[d].pages = <<>>
            /\ documents'[d].workspaceIds = <<ExpectedOwner[d]>>
       /\ Cardinality({d \in DOMAIN documents' : documents'[d].title # "New Document"}) = 5
    ]_vars

\* a second fetch has settled after a workspace id was added to a fixture
\* document and a document was created
C3_Witness ==
  /\ Cardinality(SettledFetches) >= 2
  /\ workflows # <<>>
  /\ adds >= 1
  /\ last.op = "other"

\* C4: add-document-to-workspace is an idempotent insert: applied to an existing
\* document d and any workspace id w it leaves w in d.workspaceIds exactly once;
\* applied when w is already there (a second application, consecutive or not) it
\* leaves the documents unchanged, and applying it once more to the resulting
\* state gives that same state.
C4_IdempotentInsert ==
  [][(adds' = adds + 1 /\ last'.doc \in DOMAIN documents) =>
       /\ Count(documents'[last'.doc].workspaceIds, last'.ws) = 1
       /\ (last'.present => documents' = documents)
       /\ (last'.again => documents' = documents)
       /\ AddToWorkspace(variant, documents', last'.doc, last'.ws) = documents'
    ]_vars

\* the same add was applied twice in a row to a created document, with a
\* workspace id that is not in workspaces
C4_Witness ==
  /\ last.op = "add" /\ last.again /\ last.present
  /\ workflows # <<>> /\ last.doc = workflows[1].docId
  /\ last.ws \notin DOMAIN workspaces

\* C5: add-document-to-workspace with a workspace id already in the target
\* document's workspaceIds changes nothing: documents and workspaces are
\* identical before and after.
C5_AddPresentIsNoOp ==
  [][(adds' = adds + 1 /\ last'.present) =>
       (documents' = documents /\ workspaces' = workspaces)]_vars

\* a fixture document holding two workspace ids was added again to its owning workspace
C5_Witness ==
  /\ last.op = "add" /\ last.present /\ ~last.again
  /\ last.doc = "doc-workspace-1-1" /\ last.ws = "workspace-1"
  /\ Len(documents["doc-workspace-1-1"].workspaceIds) = 2

\* C6: in every reachable state no document's workspaceIds contains the same
\* workspace id twice.
C6_NoDuplicateWorkspaceIds ==
  \A d \in DOMAIN documents :
    \A p, q \in DOMAIN documents[d].workspaceIds :
      p # q => documents[d].workspaceIds[p] # documents[d].workspaceIds[q]

\* a present id was added again to a document that holds two workspace ids
C6_Witness ==
  /\ last.op = "add" /\ last.present
  /\ \E d \in DOMAIN documents : Len(documents[d].workspaceIds) >= 2

\* C7: a document's pages list is append-only: across every step, for every
\* document present both before and after, its pages before the step are a
\* prefix of its pages after the step.
C7_PagesAppendOnly ==
  [][\A d \in (DOMAIN documents) \cap (DOMAIN documents') :
       IsPrefix(documents[d].pages, documents'[d].pages)]_vars

\* a fetch has re-inserted the fixture ids while a created document holds a
\* page and a workspace id
C7_Witness ==
  /\ Cardinality(SettledFetches) >= 2
  /\ \E i \in DOMAIN workflows :
       /\ workflows[i].docId \in DOMAIN documents
       /\ documents[workflows[i].docId].pages # <<>>
       /\ documents[workflows[i].docId].workspaceIds # <<>>

\* C8: every record is stored under its own id in both collections, so no two
\* records share an id; inserting a document whose id is already present
\* replaces the record instead of adding a second one (the collection never
\* holds more records than distinct ids were inserted).
C8_KeyedById ==
  /\ \A k \in DOMAIN documents : documents[k].id = k
  /\ \A k \in DOMAIN workspaces : workspaces[k].id = k
  /\ Cardinality(DOMAIN documents)
       = Cardinality({i \in DOMAIN workflows : workflows[i].pc # "queued"})
         + (IF SettledFetches = {} THEN 0 ELSE 5)
  /\ Cardinality(DOMAIN workspaces) = (IF SettledFetches = {} THEN 0 ELSE 3)

\* the fixture ids were inserted twice and two documents were created
C8_Witness == Cardinality(SettledFetches) >= 2 /\ Len(workflows) >= 2

\* C9: no rollback on the content-write failure: once write-page-contents has
\* failed, the optimistically inserted document and page are in the store, in
\* that state and in every later state.
C9_NoRollback ==
  \A i \in DOMAIN workflows :
    workflows[i].writes > 0 =>
      /\ workflows[i].docId \in DOMAIN documents
      /\ HasPage(documents[workflows[i].docId], workflows[i].pageId)

\* a write failed and later a fetch settled and an add was applied
C9_Witness ==
  /\ workflows # <<>> /\ workflows[1].writes = 1
  /\ SettledFetches # {} /\ last.op = "add"

\* C10: updates are optimistic: while the create-document-directory delay is
\* pending the document is already in the store, and while the
\* create-page-directory delay is pending the page is already in the
\* document's pages list.
C10_OptimisticInsert ==
  \A i \in DOMAIN workflows :
    /\ workflows[i].pc \in {"docDir", "pageDir"} => workflows[i].docId \in DOMAIN documents
    /\ workflows[i].pc = "pageDir" =>
         /\ workflows[i].docId \in DOMAIN documents
         /\ HasPage(documents[workflows[i].docId], workflows[i].pageId)

\* one workflow waits for its page directory and another for its document
\* directory, in a variant that inserts the page after the first delay
C10_Witness ==
  /\ ~EagerPage(variant)
  /\ \E i, j \in DOMAIN workflows :
       workflows[i].pc = "pageDir" /\ workflows[j].pc = "docDir"

\* the fetch-delay timer of fetch request i is still scheduled
FetchTimerPending(i) ==
  \E t \in DOMAIN timers : timers[t].kind = "fetch" /\ timers[t].wf = i

\* C11: no fetch-workspaces request is ever cancelled: every issued request
\* either has run to completion (its five document insertions and its
\* workspaces update applied) or still has its delay pending, also when another
\* fetch-workspaces request was issued while it was pending.
C11_NoFetchCancelled ==
  \A i \in DOMAIN fetches :
    \/ fetches[i] = "settled"
    \/ fetches[i] = "pending" /\ FetchTimerPending(i)

\* a directory-delay timer of create-document workflow i is still scheduled
CreateTimerPending(i) ==
  \E t \in DOMAIN timers : timers[t].kind \in {"docDir", "pageDir"} /\ timers[t].wf = i

\* C12: create-document workflows do not coordinate: from the moment a request
\* is issued its document is in the store and, until it settles, one of its own
\* delays is running, whether or not earlier create-document workflows are
\* still pending; no workflow waits for another to finish.
C12_CreatesDoNotWait ==
  \A i \in DOMAIN workflows :
    /\ workflows[i].docId \in DOMAIN documents
    /\ ~Settled(i) => workflows[i].pc \in {"docDir", "pageDir"} /\ CreateTimerPending(i)

\* C13: once the write-page-contents step of a create-document workflow has
\* failed, the workflow executes none of its remaining steps: it has no step
\* pending, its document holds only the page inserted before the failure, and
\* it has emitted no success log ("Created page" / "Created document").
C13_FailureHaltsWorkflow ==
  \A i \in DOMAIN workflows :
    workflows[i].writes > 0 =>
      /\ Settled(i) /\ ~CreateTimerPending(i)
      /\ workflows[i].docId \in DOMAIN documents
      /\ Len(documents[workflows[i].docId].pages) = 1
      /\ workflows[i].oks = 0

\* a document with its generated ids abstracted: what remains when ids are renamed
Anonymous(doc, key) ==
  [keyed |-> doc.id = key,
   path |-> doc.path = "C:/Users/trey/" \o doc.id,
   title |-> doc.title,
   pages |-> [p \in DOMAIN doc.pages |->
                [title |-> doc.pages[p].title, content |-> doc.pages[p].content]],
   workspaceIds |-> doc.workspaceIds]

\* the store of the variant under test equals the store of the vanilla run up
\* to renaming of generated ids (the k-th created document of one run
\* corresponds to the k-th created document of the other)
SameStoreAsReference ==
  /\ workspaces = reference.workspaces
  /\ Cardinality(DOMAIN documents) = Cardinality(DOMAIN reference.documents)
  /\ \A k \in DOMAIN workflows :
       /\ workflows[k].docId \in DOMAIN documents
       /\ ReferenceDocumentId(k) \in DOMAIN reference.documents
       /\ Anonymous(documents[workflows[k].docId], workflows[k].docId)
            = Anonymous(reference.documents[ReferenceDocumentId(k)], ReferenceDocumentId(k))
  /\ \A d \in DOMAIN ExpectedOwner :
       /\ d \in DOMAIN documents <=> d \in DOMAIN reference.documents
       /\ d \in DOMAIN documents => documents[d] = reference.documents[d]

\* C14: all variants implement the same operations: for every sequence of
\* create-document, fetch-workspaces and add-document-to-workspace requests,
\* once every workflow has settled the variant's store equals the store the
\* vanilla variant holds after the same requests, up to renaming of generated
\* ids (hence any two variants hold the same store).
C14_VariantsAgree ==
  (AllSettled /\ reference.timers = <<>>) => SameStoreAsReference

\* a variant other than vanilla has settled two creates and a fetch after an
\* add that changed a document
C14_Witness ==
  /\ variant # "vanilla"
  /\ AllSettled /\ reference.timers = <<>>
  /\ Len(workflows) >= 2 /\ SettledFetches # {} /\ adds >= 1
  /\ \E d \in DOMAIN documents : Len(documents[d].workspaceIds) >= 2

SagaRequested == variant = "saga" /\ Len(workflows') = Len(workflows) + 1

\* the saga of the request dispatched in this step has started at once: its
\* document is in the store and it waits in its createDocumentDirectory delay
SagaStartedAtOnce ==
  LET n == Len(workflows') IN
    /\ workflows'[n].pc = "docDir"
    /\ workflows'[n].docId \in DOMAIN documents'
    /\ \E t \in DOMAIN timers' : timers'[t].kind = "docDir" /\ timers'[t].wf = n

\* every settled saga has its own document, holding exactly its own page
SettledSagasOwnOnePage ==
  \A i \in DOMAIN workflows :
    Settled(i) =>
      /\ workflows[i].docId \in DOMAIN documents
      /\ Len(documents[workflows[i].docId].pages) = 1
      /\ documents[workflows[i].docId].pages[1].id = workflows[i].pageId
      /\ \A j \in DOMAIN workflows :
           j # i => /\ workflows[j].docId # workflows[i].docId
                    /\ workflows[j].pageId # workflows[i].pageId

\* C16 as stated: in the redux-saga variant a request dispatched while an
\* earlier saga is waiting in a delay (either of its two) starts its saga at
\* once and its document is inserted before that earlier saga inserts its page;
\* all sagas settle with their own document holding its own single page.
C16_AnyDelay ==
  [][/\ SagaRequested =>
          /\ SagaStartedAtOnce
          /\ \A i \in DOMAIN workflows :
               workflows[i].pc \in {"docDir", "pageDir"} =>
                 documents'[workflows[i].docId].pages = <<>>
     /\ (variant = "saga" => SettledSagasOwnOnePage')]_vars

\* C16 (amended): in the redux-saga variant every createDocumentRequest starts
\* its own saga at once; when it is dispatched while an earlier saga is waiting
\* in its createDocumentDirectory delay, the new document is inserted before
\* that saga inserts its page; all sagas settle with their own document holding
\* its own single page.
C16_SagasRunConcurrently ==
  [][/\ SagaRequested =>
          /\ SagaStartedAtOnce
          /\ \A i \in DOMAIN workflows :
               workflows[i].pc = "docDir" =>
                 documents'[workflows[i].docId].pages = <<>>
     /\ (variant = "saga" => SettledSagasOwnOnePage')]_vars

\* two sagas have settled, the second of which generated its document id
\* before the first generated its page id
C16_Witness ==
  /\ variant = "saga"
  /\ Len(workflows) >= 2 /\ Settled(1) /\ Settled(2)
  /\ workflows[2].docId = UUID(2) /\ workflows[1].pageId = UUID(3)

\* C17: referential integrity is not enforced: add-document-to-workspace
\* applied to an existing document with a workspace id that is not in the
\* workspaces collection (and not yet in the document) appends that id and
\* leaves workspaces alone, so a document may reference an absent workspace.
C17_DanglingWorkspaceIdAppended ==
  [][(/\ adds' = adds + 1
      /\ last'.doc \in DOMAIN documents
      /\ last'.ws \notin DOMAIN workspaces
      /\ ~last'.present) =>
       /\ documents'[last'.doc].workspaceIds
            = Append(documents[last'.doc].workspaceIds, last'.ws)
       /\ workspaces' = workspaces
       /\ last'.ws \notin DOMAIN workspaces'
    ]_vars

\* the three workspaces are loaded and a document's workspaceIds holds an id
\* that is none of them, just appended by add-document-to-workspace
C17_Witness ==
  /\ DOMAIN workspaces = DOMAIN ExpectedWorkspaces
  /\ last.op = "add" /\ ~last.present
  /\ last.ws \notin DOMAIN workspaces
  /\ last.doc \in DOMAIN documents
  /\ Includes(documents[last.doc].workspaceIds, last.ws)

\* C18: each create-document workflow invokes the write-page-contents step
\* exactly once, that invocation fails and is never retried (a settled
\* workflow counts one invocation and one failure of it, an unsettled one
\* none); no other step of any workflow (create-document-directory,
\* create-page-directory, fetch-workspaces) ever fails.
C18_OnlyTheWriteFails ==
  /\ \A i \in DOMAIN workflows :
       /\ workflows[i].stepFailures = 0
       /\ ~workflows[i].threw
       /\ workflows[i].writes = workflows[i].writeFailures
       /\ workflows[i].writes = (IF Settled(i) THEN 1 ELSE 0)
  /\ \A i \in DOMAIN fetches : fetches[i] # "failed"

\* in one run three workflows have each failed their write once and a fetch
\* has succeeded
C18_Witness ==
  /\ Cardinality({i \in DOMAIN workflows : workflows[i].writeFailures = 1}) >= 3
  /\ SettledFetches # {}

\* the sequence lists the workflows 1, 2, ..., n in that order
InIssueOrder(seq) == \A k \in DOMAIN seq : seq[k] = k

\* C19: workflows resume in issue order: if create-document request A is
\* issued before request B, then A's document is inserted before B's document,
\* A's page before B's page, and A's failure is handled (logged) before B's.
C19_ResumeInIssueOrder ==
  /\ InIssueOrder(chronicle.documents)
  /\ InIssueOrder(chronicle.pages)
  /\ InIssueOrder(chronicle.failures)

\* three workflows have failed, in a variant that starts every request at once
\* and inserts the page after the first delay, the third one issued while the
\* first was waiting in its second delay
C19_Witness ==
  /\ variant \in {"saga", "zustand", "mobx", "effect"}
  /\ Len(chronicle.failures) >= 3
  /\ workflows[1].pageId = UUID(3)
  /\ workflows[3].docId = UUID(4)
  /\ workflows[2].pageId = UUID(5)

\* every fetch request issued so far is followed by the three workspaces
FetchesAnswered == fetches # <<>> => workspaces = ExpectedWorkspaces

\* C20: every workflow settles (in the form a finite run refutes): once every
\* pending delay has fired, every create-document request is in its settled
\* state, with its failure logged to the console and no step pending, and
\* every fetch-workspaces request has been followed by the three workspaces in
\* the store.
C20_QuiescentMeansLogged ==
  timers = <<>> =>
    /\ \A i \in DOMAIN workflows :
         Settled(i) /\ workflows[i].writeFailures = 1 /\ workflows[i].errors >= 1
    /\ FetchesAnswered

\* the settled state of a create-document request: its write failure has been
\* handled (and logged to the console, except by the Redux Toolkit thunks,
\* which end in a rejected action without logging) and no step is pending
SettledState(i) ==
  /\ Settled(i) /\ ~CreateTimerPending(i)
  /\ workflows[i].writeFailures = 1
  /\ variant # "thunk" => workflows[i].errors >= 1

\* termination apart from the console log: when every pending delay eventually
\* fires and finitely many requests are issued, eventually and from then on
\* every create-document request is in its settled state and every
\* fetch-workspaces request has been followed by the three workspaces
EveryWorkflowSettles ==
  <>[](/\ \A i \in DOMAIN workflows : SettledState(i)
       /\ \A i \in DOMAIN fetches : fetches[i] \in {"settled", "cancelled"}
       /\ FetchesAnswered)

\* every fixture document of every workspace held by the store is in the store
WorkspaceDocumentsPresent(store) ==
  \A w \in DOMAIN FixtureWorkspaces :
    FixtureWorkspaces[w].id \in DOMAIN store.workspaces =>
      \A d \in DOMAIN FixtureWorkspaces[w].documents :
        FixtureWorkspaces[w].documents[d].id \in DOMAIN store.documents

\* a fetch-workspaces workflow applies its store updates in this step
FetchSettles == \E i \in DOMAIN fetches : fetches[i] = "pending" /\ fetches'[i] = "settled"

\* C21: a fetch-workspaces workflow inserts all five fixture documents before
\* it updates the workspaces collection: in every state, and in the store after
\* each single update of a fetch, whenever a workspace is in the workspaces
\* collection every fixture document of that workspace is in the documents
\* collection.
C21_DocumentsBeforeWorkspaces ==
  /\ WorkspaceDocumentsPresent([documents |-> documents, workspaces |-> workspaces])
  /\ [][/\ WorkspaceDocumentsPresent([documents |-> documents', workspaces |-> workspaces'])
        /\ FetchSettles =>
             LET stores == FetchStores(variant, documents, workspaces, FixtureWorkspaces)
             IN /\ Len(stores) >= 2
                /\ \A k \in DOMAIN stores : WorkspaceDocumentsPresent(stores[k])
                /\ documents' = stores[Len(stores)].documents
                /\ workspaces' = stores[Len(stores)].workspaces]_vars

\* the first fetch of a run has settled after a document was created, and a
\* second fetch is pending
C21_Witness ==
  /\ Cardinality(SettledFetches) = 1
  /\ DOMAIN workspaces = DOMAIN ExpectedWorkspaces
  /\ workflows # <<>>
  /\ \E i \in DOMAIN fetches : fetches[i] = "pending"

\* C22: in every create-document workflow the id passed to the
\* create-page-directory step is the id of the page the workflow inserted into
\* the document: the page directory path is <document path>/<id of the stored
\* page>.
C22_PageDirectoryIdIsPageId ==
  \A i \in DOMAIN workflows :
    workflows[i].pc \in {"pageDir", "settled"} =>
      /\ workflows[i].dirId = workflows[i].pageId
      /\ workflows[i].docId \in DOMAIN documents
      /\ HasPage(documents[workflows[i].docId], workflows[i].dirId)
      /\ workflows[i].pagePath # "" =>
           workflows[i].pagePath =
             (documents[workflows[i].docId].path \o "/")
               \o documents[workflows[i].docId].pages[1].id

\* C23: in the Redux Toolkit thunk variant every dispatch of the createDocument
\* thunk settles as rejected and never as fulfilled (writePageContents
\* rejected, hence createPage rejected, hence createDocument throws), while the
\* document and its page stay in the store.
C23_ThunkAlwaysRejected ==
  variant = "thunk" =>
    \A i \in DOMAIN workflows :
      /\ workflows[i].result # "fulfilled"
      /\ Settled(i) =>
           /\ workflows[i].result = "rejected"
           /\ workflows[i].writeFailures = 1
           /\ workflows[i].docId \in DOMAIN documents
           /\ HasPage(documents[workflows[i].docId], workflows[i].pageId)

\* two createDocument thunks have been rejected and a fetch has settled since
C23_Witness ==
  /\ variant = "thunk"
  /\ Cardinality({i \in DOMAIN workflows : workflows[i].result = "rejected"}) >= 2
  /\ SettledFetches # {}

\* C24: in the Effect-Atom variant createDocument never fails: the
\* page-creation failure is caught and logged inside the effect, the effect
\* then succeeds, and the document value it returns is the record as first
\* constructed (pages empty) although the store's copy of that document holds
\* one page.
C24_EffectCreateDocumentSucceeds ==
  variant = "effect" =>
    \A i \in DOMAIN workflows :
      /\ workflows[i].result # "rejected"
      /\ Settled(i) =>
           /\ workflows[i].result = "fulfilled"
           /\ workflows[i].writeFailures = 1 /\ workflows[i].errors = 1
           /\ workflows[i].returned = <<NewDocument(workflows[i].docId)>>
           /\ workflows[i].returned[1].pages = <<>>
           /\ workflows[i].docId \in DOMAIN documents
           /\ Len(documents[workflows[i].docId].pages) = 1

\* an Effect-Atom createDocument has returned its value for a document whose
\* store copy holds a page and a workspace id
C24_Witness ==
  /\ variant = "effect"
  /\ \E i \in DOMAIN workflows :
       /\ workflows[i].returned # <<>>
       /\ workflows[i].docId \in DOMAIN documents
       /\ documents[workflows[i].docId].workspaceIds # <<>>
       /\ documents[workflows[i].docId].pages # <<>>

\* the record the simulated database holds for fixture document d
FixtureRecord(d) ==
  LET k == CHOOSE j \in DOMAIN FixtureDocuments : FixtureDocuments[j].id = d
  IN FixtureDocuments[k]

\* C25: a fetch-workspaces that settles replaces each of the five fixture
\* documents with its fixture record: a workspace id that
\* add-document-to-workspace added to a fixture document before that fetch
\* settled is no longer in the document's workspaceIds afterwards, in every
\* variant.
C25_FetchOverwritesAddedIds ==
  [][FetchSettles =>
       \A d \in DOMAIN ExpectedOwner :
         /\ d \in DOMAIN documents' /\ documents'[d] = FixtureRecord(d)
         /\ d \in DOMAIN documents =>
              \A k \in DOMAIN documents[d].workspaceIds :
                documents[d].workspaceIds[k] # ExpectedOwner[d] =>
                  /\ ~Includes(documents'[d].workspaceIds, documents[d].workspaceIds[k])
                  /\ <<d, documents[d].workspaceIds[k]>> \in last'.dropped]_vars

\* a second fetch has just settled and removed a workspace id that had been
\* added to a fixture document after the first one settled
C25_Witness ==
  /\ last.dropped # {}
  /\ Cardinality(SettledFetches) >= 2
  /\ \A p \in last.dropped :
       p[1] \in DOMAIN documents /\ ~Includes(documents[p[1]].workspaceIds, p[2])

\* C26: no update is lost on a newly created document: in the variants that
\* insert the page only after the document-directory delay (Redux Toolkit
\* thunks, redux-saga, Zustand, MobX-Keystone, Effect-Atom), a workspace id
\* added to the new document while that delay is pending is still in its
\* workspaceIds after the page has been inserted and after the workflow has
\* settled.
C26_NoLostUpdate ==
  ~EagerPage(variant) =>
    \A i \in DOMAIN workflows :
      workflows[i].pc \in {"pageDir", "settled"} =>
        /\ workflows[i].docId \in DOMAIN documents
        /\ HasPage(documents[workflows[i].docId], workflows[i].pageId)
        /\ \A w \in workflows[i].early :
             Includes(documents[workflows[i].docId].workspaceIds, w)

\* a workflow of such a variant has settled whose document received two
\* workspace ids while its first delay was pending
C26_Witness ==
  /\ ~EagerPage(variant)
  /\ \E i \in DOMAIN workflows : Settled(i) /\ Cardinality(workflows[i].early) = 2

\* C27: documents are never removed: in every variant and every run the set of
\* document ids in the store never shrinks from one state to the next (the
\* removeDocument rollback of the vanilla thunk and of the observable epic,
\* which sits on the create-document-directory failure path, is never
\* dispatched).
C27_DocumentsNeverRemoved ==
  [][/\ DOMAIN documents \subseteq DOMAIN documents'
     /\ \A i \in DOMAIN workflows' :
          /\ workflows'[i].stepFailures = 0
          /\ workflows'[i].pc # "queued" => workflows'[i].docId \in DOMAIN documents']_vars

\* in a variant that has a removeDocument rollback, two workflows have failed
\* their write, a fetch has settled, and every created document is in the store
C27_Witness ==
  /\ variant \in {"vanilla", "observable"}
  /\ Cardinality(Failed) >= 2
  /\ SettledFetches # {}
  /\ \A i \in DOMAIN workflows : workflows[i].docId \in DOMAIN documents

\* C28: whenever a page insertion is applied during a create-document
\* workflow, the target document is present in the store, in every variant and
\* every interleaving; so the page-add operations that dereference the
\* document without a check (Redux Toolkit / saga slice addPage, Zustand
\* addPage) never act on a missing document.
C28_PageInsertionFindsDocument ==
  [][\A i \in DOMAIN workflows' :
       /\ ~workflows'[i].threw
       /\ (i \in DOMAIN workflows /\ workflows[i].pc = "docDir"
             /\ workflows'[i].pc # "docDir" /\ ~EagerPage(variant)) =>
            /\ workflows[i].docId \in DOMAIN documents
            /\ ~AddPageThrows(variant, documents, workflows[i].docId)
       /\ i \in (Paged' \ Paged) =>
            /\ workflows'[i].docId \in DOMAIN documents'
            /\ HasPage(documents'[workflows'[i].docId], workflows'[i].pageId)
            /\ Len(documents'[workflows'[i].docId].pages) = 1]_vars

\* in a variant whose addPage has no existence check, a page has been inserted
\* after a fetch settled, while another workflow waits in its first delay
C28_Witness ==
  /\ variant \in {"thunk", "saga", "zustand"}
  /\ SettledFetches # {}
  /\ \E i, j \in DOMAIN workflows :
       /\ workflows[i].pc = "pageDir" /\ i \in Paged
       /\ workflows[j].pc = "docDir"

\* C29: in every reachable state of every variant the workspaces collection is
\* either empty or exactly the three fixture workspaces, whether the variant
\* merges fetched workspaces into the existing collection (Redux variants,
\* MobX-Keystone) or replaces the collection (Zustand, Effect-Atom); each
\* stored workspace record carries only id and name, never an embedded
\* documents list.
C29_WorkspacesEmptyOrFixture ==
  /\ DOMAIN workspaces = {} \/ workspaces = ExpectedWorkspaces
  /\ DOMAIN workspaces = {} <=> SettledFetches = {}
  /\ \A w \in DOMAIN workspaces : DOMAIN workspaces[w] = {"id", "name"}
  /\ SetWorkspaces(variant, workspaces, FixtureWorkspaces) = ExpectedWorkspaces

\* a variant that replaces the collection has applied the fetched workspaces
\* twice
C29_Witness ==
  /\ variant \in {"zustand", "effect"}
  /\ Cardinality(SettledFetches) >= 2
  /\ workspaces = ExpectedWorkspaces

\* the store that n create-document requests and, when fetched, at least one
\* fetch-workspaces request leave behind, generated ids apart
SettledStoreIs(n, fetched) ==
  /\ IF fetched THEN workspaces = ExpectedWorkspaces ELSE DOMAIN workspaces = {}
  /\ \A d \in DOMAIN ExpectedOwner :
       IF fetched THEN d \in DOMAIN documents /\ documents[d] = FixtureRecord(d)
       ELSE d \notin DOMAIN documents
  /\ Cardinality(DOMAIN documents) = n + (IF fetched THEN 5 ELSE 0)
  /\ Cardinality({workflows[k].docId : k \in DOMAIN workflows}) = n
  /\ \A k \in DOMAIN workflows :
       /\ workflows[k].docId \in DOMAIN documents
       /\ workflows[k].docId \notin DOMAIN ExpectedOwner
       /\ Anonymous(documents[workflows[k].docId], workflows[k].docId)
            = [keyed |-> TRUE, path |-> TRUE, title |-> "New Document",
               pages |-> <<[title |-> "New Page", content |-> ""]>>,
               workspaceIds |-> <<>>]

\* in runs of create-document and fetch-workspaces requests only, the settled
\* store depends on the requests alone, not on how their steps interleaved
SettledStoreSameForEveryInterleaving ==
  (AllSettled /\ adds = 0) => SettledStoreIs(Len(workflows), fetches # <<>>)

\* a step of a create-document workflow (request or resumption after a delay)
CreateStep == workflows' # workflows /\ adds' = adds

\* C30: create-document and fetch-workspaces workflows do not interfere: the
\* settled store state is the same for every interleaving of their steps, a
\* fetch never changes a created document (created ids never equal fixture
\* ids), and a create never changes a fixture document or the workspaces
\* collection.
C30_CreateAndFetchDoNotInterfere ==
  /\ SettledStoreSameForEveryInterleaving
  /\ [][/\ SettledStoreSameForEveryInterleaving'
        /\ FetchSettles =>
             \A k \in DOMAIN workflows :
               workflows[k].docId \in DOMAIN documents =>
                 /\ workflows[k].docId \notin DOMAIN ExpectedOwner
                 /\ workflows[k].docId \in DOMAIN documents'
                 /\ documents'[workflows[k].docId] = documents[workflows[k].docId]
        /\ CreateStep =>
             /\ workspaces' = workspaces
             /\ \A d \in DOMAIN ExpectedOwner :
                  IF d \in DOMAIN documents
                  THEN d \in DOMAIN documents' /\ documents'[d] = documents[d]
                  ELSE d \notin DOMAIN documents']_vars

\* two creates and two fetches, and nothing else, have all settled
C30_Witness ==
  /\ AllSettled /\ adds = 0
  /\ Len(workflows) = 2
  /\ Cardinality(SettledFetches) = 2

\* the store after one more fetch-workspaces workflow has settled
AfterFetch(store) ==
  LET stores == FetchStores(variant, store.documents, store.workspaces, FixtureWorkspaces)
  IN stores[Len(stores)]

\* no add-document-to-workspace has changed a fixture document since the last
\* fetch settled: each one equals its fixture record
FixtureDocumentsUntouched ==
  \A d \in DOMAIN ExpectedOwner : d \in DOMAIN documents /\ documents[d] = FixtureRecord(d)

\* C31: fetch-workspaces is idempotent: from every store, two settled fetches
\* with nothing in between leave the store that one leaves; and a fetch that
\* settles after an earlier one, when no add-document-to-workspace was applied
\* to a fixture document in between, leaves documents and workspaces as they
\* were, with exactly five fixture documents, not ten.
C31_FetchIdempotent ==
  /\ LET once == AfterFetch([documents |-> documents, workspaces |-> workspaces])
     IN AfterFetch(once) = once
  /\ [][(FetchSettles /\ SettledFetches # {} /\ FixtureDocumentsUntouched) =>
          /\ documents' = documents
          /\ workspaces' = workspaces
          /\ Cardinality({d \in DOMAIN documents' :
                            documents'[d].title # "New Document"}) = 5]_vars

\* three fetches have settled in a run without any add-document-to-workspace,
\* beside a created document
C31_Witness ==
  /\ Cardinality(SettledFetches) >= 3
  /\ adds = 0
  /\ workflows # <<>>
  /\ FixtureDocumentsUntouched

\* C32: when add-document-to-workspace does insert (existing document d,
\* workspace id w not yet in d.workspaceIds), it appends w at the end of
\* d.workspaceIds and leaves everything else unchanged: d's id, path, title and
\* pages, the previous entries of d.workspaceIds and their order, every other
\* document, and the workspaces collection.
C32_AddChangesOnlyWorkspaceIds ==
  [][(adds' = adds + 1 /\ last'.doc \in DOMAIN documents /\ ~last'.present) =>
       LET d == last'.doc IN
       /\ DOMAIN documents' = DOMAIN documents
       /\ documents'[d].id = documents[d].id
       /\ documents'[d].path = documents[d].path
       /\ documents'[d].title = documents[d].title
       /\ documents'[d].pages = documents[d].pages
       /\ Len(documents'[d].workspaceIds) = Len(documents[d].workspaceIds) + 1
       /\ IsPrefix(documents[d].workspaceIds, documents'[d].workspaceIds)
       /\ documents'[d].workspaceIds[Len(documents'[d].workspaceIds)] = last'.ws
       /\ \A e \in DOMAIN documents \ {d} : documents'[e] = documents[e]
       /\ workspaces' = workspaces
    ]_vars

\* with workspaces and fixture documents loaded, a second workspace id has
\* just been appended to a created document that holds a page
C32_Witness ==
  /\ last.op = "add" /\ ~last.present
  /\ DOMAIN workspaces # {}
  /\ workflows # <<>> /\ last.doc = workflows[1].docId
  /\ last.doc \in DOMAIN documents
  /\ documents[last.doc].pages # <<>>
  /\ Len(documents[last.doc].workspaceIds) = 2
  /\ documents[last.doc].workspaceIds[2] = last.ws

\* C33: every create-document workflow logs its content-write failure to the
\* console at least once before it settles: exactly once in the vanilla Redux,
\* redux-observable and Effect-Atom variants, and exactly twice (once at page
\* level, once at document level after the re-throw) in the redux-saga,
\* Zustand and MobX-Keystone variants.
C33_FailureLoggedOnceOrTwice ==
  \A i \in DOMAIN workflows :
    /\ Settled(i) =>
         /\ workflows[i].writeFailures = 1
         /\ workflows[i].errors >= 1
         /\ variant \in {"vanilla", "observable", "effect"} => workflows[i].errors = 1
         /\ variant \in {"saga", "zustand", "mobx"} => workflows[i].errors = 2
    /\ ~Settled(i) => workflows[i].errors = 0

====
